---- MODULE Spec2Model ----
(***************************************************************************)
(* Deadline notifications of asobi-bot: filter_entries and format_message  *)
(* (src/src/notifications.py) and the run of main (src/src/main.py).       *)
(***************************************************************************)
EXTENDS Integers, Sequences, FiniteSets, TLC

VARIABLES
    \* format_message (notifications.py:31-126): arguments and locals
    section, entries, omitted_message, max_display,
    current_max, merged, omitted, msg, fpc,
    \* main (main.py:292-354): environment, locals, position
    webhook_url, ALERT_DAYS, debug, alert_days, now,
    fetched, fetch_log, store_items, ticket_items,
    by_deadline, todo, any_sent, sent, error, pc

fmtvars == <<section, entries, omitted_message, max_display,
             current_max, merged, omitted, msg, fpc>>

mainvars == <<webhook_url, ALERT_DAYS, debug, alert_days, now,
              fetched, fetch_log, store_items, ticket_items,
              by_deadline, todo, any_sent, sent, error, pc>>

vars == <<fmtvars, mainvars>>

----------------------------------------------------------------------------
(* Strings *)
(* A string is kept as its runs: a sequence of <<character, count>> with   *)
(* count >= 1 and no two adjacent runs of the same character, so that two  *)
(* strings are equal exactly when their sequences are.  A character is a   *)
(* one-element TLA+ string; the fixed Japanese texts are written with one  *)
(* romanised token per character, so every length is that of the Python    *)
(* string.                                                                 *)

Min(a, b) == IF a <= b THEN a ELSE b
Max(a, b) == IF a >= b THEN a ELSE b

\* a + b
Cat(a, b) ==
    IF a = <<>> THEN b
    ELSE IF b = <<>> THEN a
    ELSE IF a[Len(a)][1] = b[1][1]
         THEN SubSeq(a, 1, Len(a) - 1)
              \o << <<b[1][1], a[Len(a)][2] + b[1][2]>> >>
              \o Tail(b)
         ELSE a \o b

\* the string of a tuple of characters
RECURSIVE Str(_)
Str(chars) ==
    IF chars = <<>> THEN <<>>
    ELSE Cat(<< <<chars[1], 1>> >>, Str(Tail(chars)))

\* c * n
Rep(c, n) == IF n <= 0 THEN <<>> ELSE << <<c, n>> >>

\* len(s)
RECURSIVE StrLen(_)
StrLen(s) ==
    IF s = <<>> THEN 0
    ELSE IF Len(s) = 1 THEN s[1][2]
    ELSE StrLen(SubSeq(s, 1, Len(s) \div 2))
         + StrLen(SubSeq(s, Len(s) \div 2 + 1, Len(s)))

\* s[:n], n >= 0
RECURSIVE Take(_, _)
Take(s, n) ==
    IF n <= 0 \/ s = <<>> THEN <<>>
    ELSE IF s[1][2] >= n THEN << <<s[1][1], n>> >>
    ELSE Cat(<<s[1]>>, Take(Tail(s), n - s[1][2]))

\* s[n:], n >= 0
RECURSIVE Drop(_, _)
Drop(s, n) ==
    IF n <= 0 \/ s = <<>> THEN s
    ELSE IF s[1][2] > n THEN << <<s[1][1], s[1][2] - n>> >> \o Tail(s)
    ELSE Drop(Tail(s), n - s[1][2])

\* Slice, one element too long
SliceOneMore(s, n) ==
    IF n >= 0 THEN SubSeq(s, 1, Min(n + 1, Len(s)))
    ELSE SubSeq(s, 1, Max(0, Len(s) + n + 1))

\* Python's list[:n], n of either sign
Slice(s, n) ==
    IF n >= 0 THEN SubSeq(s, 1, Min(n, Len(s)))
    ELSE SubSeq(s, 1, Max(0, Len(s) + n))

\* sep.join(parts)
RECURSIVE JoinBy(_, _)
JoinBy(sep, parts) ==
    IF parts = <<>> THEN <<>>
    ELSE IF Len(parts) = 1 THEN parts[1]
    ELSE Cat(Cat(parts[1], sep), JoinBy(sep, Tail(parts)))

\* "\n".join(lines)
Join(lines) == JoinBy(Str(<<"\n">>), lines)

Digit(n) ==
    CASE n = 0 -> "0" [] n = 1 -> "1" [] n = 2 -> "2" [] n = 3 -> "3"
      [] n = 4 -> "4" [] n = 5 -> "5" [] n = 6 -> "6" [] n = 7 -> "7"
      [] n = 8 -> "8" [] n = 9 -> "9"

\* A deadline is [date, time]; the dates of the model are the days 1..31 of
\* January 2025, date being the day of the month.
\* deadline.strftime("%Y-%m-%d")
strftime(deadline) ==
    Str(<<"2", "0", "2", "5", "-", "0", "1", "-",
          Digit(deadline.date \div 10), Digit(deadline.date % 10)>>)

----------------------------------------------------------------------------
(* format_message *)

\* the character budget of a message
Budget == 2000

min_display == 3

DeadlineEntry(title, url, deadline) ==
    [title |-> title, url |-> url, deadline |-> deadline]

\* key = e.title[:prefix_len] if len(e.title) >= prefix_len else e.title
PrefixKey(e, prefix_len) ==
    IF StrLen(e.title) >= prefix_len THEN Take(e.title, prefix_len)
    ELSE e.title

\* grouped = defaultdict(list); grouped[key].append(e): the groups in the
\* order in which their keys are first inserted
RECURSIVE grouped(_, _)
grouped(es, prefix_len) ==
    IF es = <<>> THEN <<>>
    ELSE LET g == grouped(SubSeq(es, 1, Len(es) - 1), prefix_len)
             e == es[Len(es)]
             k == PrefixKey(e, prefix_len)
             hit == {i \in 1..Len(g) : g[i].key = k}
         IN  IF hit = {} THEN Append(g, [key |-> k, group |-> <<e>>])
             ELSE LET i == CHOOSE j \in hit : TRUE
                  IN  [g EXCEPT ![i].group = Append(@, e)]

MergedRow(key, group) ==
    IF Len(group) = 1 THEN group[1]
    ELSE DeadlineEntry(Cat(key, Str(<<".", ".", ".">>)), group[1].url, group[1].deadline)

merge_by_prefix(es, prefix_len) ==
    LET g == grouped(es, prefix_len)
    IN  [i \in 1..Len(g) |-> MergedRow(g[i].key, g[i].group)]

\* EntryLine with the url where the title belongs
EntryLineSwapped(e) ==
    Cat(Cat(Cat(Cat(Str(<<"-", " ", "[">>), e.url), Str(<<"]", "(">>)), e.title),
        Str(<<")">>))

\* f"- [{e.title}]({e.url})"
EntryLine(e) ==
    Cat(Cat(Cat(Cat(Str(<<"-", " ", "[">>), e.title), Str(<<"]", "(">>)), e.url),
        Str(<<")">>))

\* f"**{section}**"
Header(sec) == Cat(Cat(Str(<<"*", "*">>), sec), Str(<<"*", "*">>))

\* "締切: "
DeadlineLabel == Str(<<"shime", "kiri", ":", " ">>)

build_lines(sec, om, merged_items, omit) ==
    <<Header(sec)>>
    \o (IF merged_items # <<>>
        THEN <<Cat(DeadlineLabel, strftime(merged_items[1].deadline))>>
             \o [i \in 1..Len(merged_items) |-> EntryLine(merged_items[i])]
        ELSE <<>>)
    \o (IF omit THEN <<om>> ELSE <<>>)

\* max(len(e.title) for e in merged), of a non-empty list
RECURSIVE MaxTitleLen(_)
MaxTitleLen(es) ==
    IF Len(es) = 1 THEN StrLen(es[1].title)
    ELSE Max(StrLen(es[1].title), MaxTitleLen(Tail(es)))

\* for l in range(L, 0, -1): merged = merge_by_prefix(merged, l);
\*     if len(merged) <= current_max: break
RECURSIVE MergeDown(_, _, _)
MergeDown(m, l, cmax) ==
    IF l < 1 THEN m
    ELSE LET m2 == merge_by_prefix(m, l)
         IN  IF Len(m2) <= cmax THEN m2 ELSE MergeDown(m2, l - 1, cmax)

\* One pass of the body of `while True` up to the message: the rows, the
\* omitted flag and the message at cap cmax; raised when max() is applied
\* to an empty list (ValueError).
CapBody(sec, es, om, cmax) ==
    IF Len(es) > cmax
    THEN IF es = <<>>
         THEN [raised |-> TRUE, merged |-> es, omitted |-> FALSE, msg |-> <<>>]
         ELSE LET m1 == MergeDown(es, MaxTitleLen(es), cmax)
                  m2 == IF Len(m1) > cmax THEN Slice(m1, cmax) ELSE m1
              IN  [raised |-> FALSE, merged |-> m2, omitted |-> TRUE,
                   msg |-> Join(build_lines(sec, om, m2, TRUE))]
    ELSE [raised |-> FALSE, merged |-> es, omitted |-> FALSE,
          msg |-> Join(build_lines(sec, om, es, FALSE))]

\* "(省略されています)"
OmittedNotice ==
    Str(<<"(", "shou", "ryaku", "sa", "re", "te", "i", "ma", "su", ")">>)

\* f"**{section}**\n(省略されています)\n" + omitted_message
Fallback(sec, om) ==
    Cat(Cat(Cat(Cat(Header(sec), Str(<<"\n">>)), OmittedNotice), Str(<<"\n">>)), om)

\* lines 116-118: break when the message fits or the cap is at min_display,
\* else current_max -= 2 and the next iteration
RECURSIVE CapLoop(_, _, _, _)
CapStep(sec, es, om, cmax, b) ==
    IF b.raised \/ StrLen(b.msg) <= Budget \/ cmax <= min_display THEN b
    ELSE CapLoop(sec, es, om, cmax - 2)

\* the `while True` loop from cap cmax on
CapLoop(sec, es, om, cmax) == CapStep(sec, es, om, cmax, CapBody(sec, es, om, cmax))

\* merged = merged[:-1]; omitted = True; the message is built again
DropLastRow(sec, om, b, m) ==
    [b EXCEPT !.merged = m, !.omitted = TRUE, !.msg = Join(build_lines(sec, om, m, TRUE))]

\* while len(msg) > 2000 and len(merged) > min_display: drop the last row
RECURSIVE TrailLoop(_, _, _)
TrailLoop(sec, om, b) ==
    IF StrLen(b.msg) > Budget /\ Len(b.merged) > min_display
    THEN TrailLoop(sec, om, DropLastRow(sec, om, b, Slice(b.merged, Len(b.merged) - 1)))
    ELSE b

\* lines 124-126: the last resort when the message is still too long
LastResort(sec, om, t) ==
    [raised |-> FALSE,
     msg |-> IF StrLen(t.msg) > Budget THEN Fallback(sec, om) ELSE t.msg]

\* what follows the `while True` loop
AfterCapLoop(sec, om, b) ==
    IF b.raised THEN [raised |-> TRUE, msg |-> <<>>]
    ELSE LastResort(sec, om, TrailLoop(sec, om, b))

\* the call's outcome: raised (ValueError), or the returned msg
format_message(sec, es, om, maxd) == AfterCapLoop(sec, om, CapLoop(sec, es, om, maxd))

----------------------------------------------------------------------------
(* The inputs of a call of format_message *)

\* most entries of a call
MaxEntries == 5
\* longest list in which titles may repeat
MaxRepeat == 3
\* lengths of the long url, section and omitted_message of the inputs
UrlMid == 500
UrlLong == 700
SectionLong == 1997
OmittedLong == 2001

FmtTitles ==
    { Str(<<"a", "b">>), Str(<<"a", "c">>), Str(<<"b">>), Str(<<"c">>),
      Str(<<"d">>), Str(<<"e">>) }

Injective(s) == \A i, j \in 1..Len(s) : s[i] = s[j] => i = j

TitleLists ==
    { s \in UNION { [1..n -> FmtTitles] : n \in 0..MaxEntries } :
        Injective(s) \/ Len(s) <= MaxRepeat }

\* titles that repeat and titles with a "." after a repeated title
DotTitles == { Str(<<"a">>), Str(<<"a", ".", "x">>), Str(<<"b">>), Str(<<"c">>) }

DotLists == UNION { [1..n -> DotTitles] : n \in 0..MaxEntries }

FmtDeadline == [date |-> 10, time |-> 1]

\* the url of the i-th entry, pad characters longer than "u<i>"
FmtUrl(i, pad) == Cat(Str(<<"u", Digit(i)>>), Rep("x", pad))

FmtEntries(titles, pad) ==
    [i \in 1..Len(titles) |-> DeadlineEntry(titles[i], FmtUrl(i, pad), FmtDeadline)]

\* "...他にも省略されています..."
DefaultOmitted ==
    Str(<<".", ".", ".", "hoka", "ni", "mo", "shou", "ryaku", "sa", "re", "te",
          "i", "ma", "su", ".", ".", ".">>)

SectionShort == Str(<<"S">>)

\* (section, omitted_message, url padding) of a call
FmtShapes ==
    { <<SectionShort, DefaultOmitted, 0>>,
      <<SectionShort, DefaultOmitted, UrlMid>>,
      <<SectionShort, DefaultOmitted, UrlLong>>,
      <<Rep("S", SectionLong), DefaultOmitted, 0>>,
      <<SectionShort, Rep("o", OmittedLong), 0>> }

MaxDisplays == {-1, 0, 2, 5, 25}

----------------------------------------------------------------------------
(* format_message, one loop iteration at a time *)

NoError == [kind |-> "", at |-> ""]

\* main is not running
MainIdle ==
    /\ webhook_url = <<>>
    /\ ALERT_DAYS = <<>>
    /\ debug = FALSE
    /\ alert_days = <<>>
    /\ now = FmtDeadline
    /\ fetched = <<>>
    /\ fetch_log = <<>>
    /\ store_items = <<>>
    /\ ticket_items = <<>>
    /\ by_deadline = <<>>
    /\ todo = <<>>
    /\ any_sent = FALSE
    /\ sent = <<>>
    /\ error = NoError
    /\ pc = "idle"

InitFmt ==
    /\ \E sh \in FmtShapes, t \in TitleLists \cup DotLists :
          /\ t \in TitleLists \/ sh = <<SectionShort, DefaultOmitted, 0>>
          /\ section = sh[1]
          /\ omitted_message = sh[2]
          /\ entries = FmtEntries(t, sh[3])
    /\ max_display \in MaxDisplays
    /\ current_max = 0
    /\ merged = <<>>
    /\ omitted = FALSE
    /\ msg = <<>>
    /\ fpc = "call"
    /\ MainIdle

\* lines 98-101
Call ==
    /\ fpc = "call"
    /\ current_max' = max_display
    /\ merged' = entries
    /\ omitted' = FALSE
    /\ fpc' = "loop"
    /\ UNCHANGED <<section, entries, omitted_message, max_display, msg>>
    /\ UNCHANGED mainvars

\* lines 102-118: one iteration of `while True`
CapIteration ==
    /\ fpc = "loop"
    /\ LET b == CapBody(section, entries, omitted_message, current_max)
       IN  IF b.raised
           THEN /\ fpc' = "raised"
                /\ merged' = entries
                /\ omitted' = FALSE
                /\ UNCHANGED <<msg, current_max>>
           ELSE /\ merged' = b.merged
                /\ omitted' = b.omitted
                /\ msg' = b.msg
                /\ IF StrLen(b.msg) <= Budget \/ current_max <= min_display
                   THEN fpc' = "trail" /\ UNCHANGED current_max
                   ELSE fpc' = "loop" /\ current_max' = current_max - 2
    /\ UNCHANGED <<section, entries, omitted_message, max_display>>
    /\ UNCHANGED mainvars

\* lines 119-123: one iteration of the trailing truncation
TrailingTruncation ==
    /\ fpc = "trail"
    /\ StrLen(msg) > Budget /\ Len(merged) > min_display
    /\ merged' = Slice(merged, Len(merged) - 1)
    /\ omitted' = TRUE
    /\ msg' = Join(build_lines(section, omitted_message, merged', TRUE))
    /\ UNCHANGED <<section, entries, omitted_message, max_display, current_max, fpc>>
    /\ UNCHANGED mainvars

\* Return without the last resort
ReturnWithoutLastResort ==
    /\ fpc = "trail"
    /\ ~(StrLen(msg) > Budget /\ Len(merged) > min_display)
    /\ fpc' = "returned"
    /\ UNCHANGED <<section, entries, omitted_message, max_display, current_max,
                   merged, omitted, msg>>
    /\ UNCHANGED mainvars

\* lines 124-126: the last resort and the return of msg
Return ==
    /\ fpc = "trail"
    /\ ~(StrLen(msg) > Budget /\ Len(merged) > min_display)
    /\ msg' = IF StrLen(msg) > Budget THEN Fallback(section, omitted_message) ELSE msg
    /\ fpc' = IF StrLen(msg) > Budget THEN "fallback" ELSE "returned"
    /\ UNCHANGED <<section, entries, omitted_message, max_display, current_max,
                   merged, omitted>>
    /\ UNCHANGED mainvars

NextFmt == Call \/ CapIteration \/ TrailingTruncation \/ Return

SpecFmt == InitFmt /\ [][NextFmt]_vars

FmtDone == fpc \in {"returned", "fallback"}

\* the step-wise run returns what format_message returns
StepwiseAgrees ==
    LET r == format_message(section, entries, omitted_message, max_display)
    IN  /\ FmtDone => ~r.raised /\ r.msg = msg
        /\ fpc = "raised" => r.raised

----------------------------------------------------------------------------
(* Configuration (main.py:50-64, config.py:15-30) *)
(* An environment value is None or a tuple of characters.                  *)

\* os.getenv of a variable that is not set
None == <<"None">>

IsDigit(c) == c \in {"0", "1", "2", "3", "4", "5", "6", "7", "8", "9"}

DigitVal(c) ==
    CASE c = "0" -> 0 [] c = "1" -> 1 [] c = "2" -> 2 [] c = "3" -> 3
      [] c = "4" -> 4 [] c = "5" -> 5 [] c = "6" -> 6 [] c = "7" -> 7
      [] c = "8" -> 8 [] c = "9" -> 9

\* value.split(",")
RECURSIVE SplitComma(_)
SplitComma(v) ==
    LET brk == {i \in 1..Len(v) : v[i] = ","}
    IN  IF brk = {} THEN <<v>>
        ELSE LET i == CHOOSE j \in brk : \A k \in brk : j <= k
             IN  <<SubSeq(v, 1, i - 1)>> \o SplitComma(SubSeq(v, i + 1, Len(v)))

\* v.strip()
RECURSIVE strip(_)
strip(v) ==
    IF v # <<>> /\ v[1] = " " THEN strip(Tail(v))
    ELSE IF v # <<>> /\ v[Len(v)] = " " THEN strip(SubSeq(v, 1, Len(v) - 1))
    ELSE v

\* int(v) does not raise ValueError: an optional sign, then digits
IsIntLiteral(v) ==
    LET d == IF v # <<>> /\ v[1] \in {"+", "-"} THEN Tail(v) ELSE v
    IN  d # <<>> /\ \A i \in 1..Len(d) : IsDigit(d[i])

RECURSIVE DigitsVal(_)
DigitsVal(d) ==
    IF d = <<>> THEN 0
    ELSE 10 * DigitsVal(SubSeq(d, 1, Len(d) - 1)) + DigitVal(d[Len(d)])

\* int(v), of an integer literal
int(v) ==
    IF v[1] = "-" THEN 0 - DigitsVal(Tail(v))
    ELSE IF v[1] = "+" THEN DigitsVal(Tail(v))
    ELSE DigitsVal(v)

\* sorted(S), of a set of integers
RECURSIVE sorted(_)
sorted(S) ==
    IF S = {} THEN <<>>
    ELSE LET m == CHOOSE x \in S : \A y \in S : x <= y
         IN  <<m>> \o sorted(S \ {m})

DefaultAlertDays == <<0, 1, 7>>

load_alert_days(value) ==
    IF value # None /\ value # <<>>
    THEN LET parts == SplitComma(value)
             kept == {i \in 1..Len(parts) : strip(parts[i]) # <<>>}
         IN  IF \A i \in kept : IsIntLiteral(strip(parts[i]))
             THEN sorted({int(strip(parts[i])) : i \in kept})
             ELSE DefaultAlertDays
    ELSE DefaultAlertDays

----------------------------------------------------------------------------
(* filter_entries (notifications.py:8-28) and the grouping of               *)
(* send_entries_by_deadline (main.py:309-315)                               *)

\* filter_entries with the offset taken from the deadline to now
RECURSIVE filter_entries_reversed(_, _, _)
filter_entries_reversed(es, days, nw) ==
    IF es = <<>> THEN <<>>
    ELSE LET alert_set == {days[i] : i \in 1..Len(days)}
             entry == es[Len(es)]
             delta == nw.date - entry.deadline.date
         IN  IF delta \in alert_set
             THEN Append(filter_entries_reversed(SubSeq(es, 1, Len(es) - 1), days, nw), entry)
             ELSE filter_entries_reversed(SubSeq(es, 1, Len(es) - 1), days, nw)

RECURSIVE filter_entries(_, _, _)
filter_entries(es, days, nw) ==
    IF es = <<>> THEN <<>>
    ELSE LET alert_set == {days[i] : i \in 1..Len(days)}
             entry == es[Len(es)]
             delta == entry.deadline.date - nw.date
         IN  IF delta \in alert_set
             THEN Append(filter_entries(SubSeq(es, 1, Len(es) - 1), days, nw), entry)
             ELSE filter_entries(SubSeq(es, 1, Len(es) - 1), days, nw)

\* the key of by_deadline: e.deadline.date()
DeadlineKey(e) == e.deadline.date

\* ByDeadline with by_deadline[key] = [e] in place of the append
RECURSIVE ByDeadlineOverwriting(_)
ByDeadlineOverwriting(es) ==
    IF es = <<>> THEN <<>>
    ELSE LET g == ByDeadlineOverwriting(SubSeq(es, 1, Len(es) - 1))
             e == es[Len(es)]
             hit == {i \in 1..Len(g) : g[i].key = DeadlineKey(e)}
         IN  IF hit = {} THEN Append(g, [key |-> DeadlineKey(e), group |-> <<e>>])
             ELSE LET i == CHOOSE j \in hit : TRUE
                  IN  [g EXCEPT ![i].group = <<e>>]

\* by_deadline = defaultdict(list); by_deadline[e.deadline.date()].append(e):
\* the groups in the order in which their dates are first inserted
RECURSIVE ByDeadline(_)
ByDeadline(es) ==
    IF es = <<>> THEN <<>>
    ELSE LET g == ByDeadline(SubSeq(es, 1, Len(es) - 1))
             e == es[Len(es)]
             hit == {i \in 1..Len(g) : g[i].key = DeadlineKey(e)}
         IN  IF hit = {} THEN Append(g, [key |-> DeadlineKey(e), group |-> <<e>>])
             ELSE LET i == CHOOSE j \in hit : TRUE
                  IN  [g EXCEPT ![i].group = Append(@, e)]

\* SortedKeys without the sort: by_deadline.keys()
InsertionKeys(g) == [i \in 1..Len(g) |-> g[i].key]

\* sorted(by_deadline.keys())
SortedKeys(g) == sorted({g[i].key : i \in 1..Len(g)})

\* by_deadline[deadline]
GroupOf(g, deadline) == g[CHOOSE i \in 1..Len(g) : g[i].key = deadline].group

----------------------------------------------------------------------------
(* The texts of main (main.py:34-38, 329-353) *)

\* "https://shop.asobistore.jp/product/catalog/s/simekiri/n/120/sime/1/cf113/118/p"  (78 characters)
ASOBISTORE_URL ==
    Str(<<"h", "t", "t", "p", "s", ":", "/", "/", "s", "h", "o", "p", ".",
          "a", "s", "o", "b", "i", "s", "t", "o", "r", "e", ".", "j", "p",
          "/", "p", "r", "o", "d", "u", "c", "t", "/", "c", "a", "t", "a",
          "l", "o", "g", "/", "s", "/", "s", "i", "m", "e", "k", "i", "r",
          "i", "/", "n", "/", "1", "2", "0", "/", "s", "i", "m", "e", "/",
          "1", "/", "c", "f", "1", "1", "3", "/", "1", "1", "8", "/", "p">>)

\* "https://asobiticket2.asobistore.jp/booths"  (41 characters)
ASOBITICKET_EVENTS_URL ==
    Str(<<"h", "t", "t", "p", "s", ":", "/", "/", "a", "s", "o", "b", "i",
          "t", "i", "c", "k", "e", "t", "2", ".", "a", "s", "o", "b", "i",
          "s", "t", "o", "r", "e", ".", "j", "p", "/", "b", "o", "o", "t",
          "h", "s">>)

\* the text of 11 characters romanised below  (11 characters)
StoreSection ==
    Str(<<"A", "SO", "BI", "SU", "TO", "A", " ", "shime", "kiri", "ma_kan",
          "jika">>)

\* the text of 12 characters romanised below  (12 characters)
TicketSection ==
    Str(<<"A", "SO", "BI", "CHI", "KE", "TSU", "TO", " ", "shime", "kiri",
          "ma_kan", "jika">>)

\* the text of 118 characters romanised below  (118 characters)
StoreOmitted ==
    Str(<<".", ".", ".", "ichi", "bu", "shou", "ryaku", "sa", "re", "te",
          "i", "ma", "su", ".", ".", ".", "\n", "shou_sai", "sai", "ha",
          "[", "A", "SO", "BI", "SU", "TO", "A", "]", "(", "h", "t", "t",
          "p", "s", ":", "/", "/", "s", "h", "o", "p", ".", "a", "s", "o",
          "b", "i", "s", "t", "o", "r", "e", ".", "j", "p", "/", "p", "r",
          "o", "d", "u", "c", "t", "/", "c", "a", "t", "a", "l", "o", "g",
          "/", "s", "/", "s", "i", "m", "e", "k", "i", "r", "i", "/", "n",
          "/", "1", "2", "0", "/", "s", "i", "m", "e", "/", "1", "/", "c",
          "f", "1", "1", "3", "/", "1", "1", "8", "/", "p", ")", "wo",
          "kaku", "nin", "shi", "te", "ku", "da", "sa", "i", "maru">>)

\* the text of 82 characters romanised below  (82 characters)
TicketOmitted ==
    Str(<<".", ".", ".", "ichi", "bu", "shou", "ryaku", "sa", "re", "te",
          "i", "ma", "su", ".", ".", ".", "\n", "shou_sai", "sai", "ha",
          "[", "A", "SO", "BI", "CHI", "KE", "TSU", "TO", "]", "(", "h",
          "t", "t", "p", "s", ":", "/", "/", "a", "s", "o", "b", "i", "t",
          "i", "c", "k", "e", "t", "2", ".", "a", "s", "o", "b", "i", "s",
          "t", "o", "r", "e", ".", "j", "p", "/", "b", "o", "o", "t", "h",
          "s", ")", "wo", "kaku", "nin", "shi", "te", "ku", "da", "sa",
          "i", "maru">>)

\* the text of 17 characters romanised below  (17 characters)
StorePlaceholder ==
    Str(<<"A", "SO", "BI", "SU", "TO", "A", "no", "PA", "DASH", "SU", "ha",
          "mi", "jitsu", "sou", "de", "su", "maru">>)

\* the text of 18 characters romanised below  (18 characters)
TicketPlaceholder ==
    Str(<<"A", "SO", "BI", "CHI", "KE", "TSU", "TO", "no", "PA", "DASH",
          "SU", "ha", "mi", "jitsu", "sou", "de", "su", "maru">>)

\* the text of 20 characters romanised below  (20 characters)
NoItemsText ==
    Str(<<"nichi", "go", "ni", "shime", "kiri", "no", "A", "I", "TE", "MU",
          "ha", "a", "ri", "ma", "se", "n", "de", "shi", "ta", "maru">>)

\* max_display of format_message when main calls it
DefaultMaxDisplay == 25

Sources == {"store", "ticket"}

SectionOf(src) == IF src = "store" THEN StoreSection ELSE TicketSection

OmittedOf(src) == IF src = "store" THEN StoreOmitted ELSE TicketOmitted

PlaceholderOf(src) == IF src = "store" THEN StorePlaceholder ELSE TicketPlaceholder

\* str(n), of an integer below 100 in absolute value
IntStr(n) ==
    LET a == IF n < 0 THEN 0 - n ELSE n
        digits == IF a >= 10 THEN <<Digit(a \div 10), Digit(a % 10)>> ELSE <<Digit(a)>>
    IN  Str((IF n < 0 THEN <<"-">> ELSE <<>>) \o digits)

\* ",".join(map(str, sorted(alert_days))) + "日後に締切のアイテムはありませんでした。"
no_message(days) ==
    LET srt == sorted({days[i] : i \in 1..Len(days)})
    IN  Cat(JoinBy(Str(<<",">>), [i \in 1..Len(srt) |-> IntStr(srt[i])]), NoItemsText)

----------------------------------------------------------------------------
(* send_discord (main.py:67-84, discord_client.py:6-23) *)

\* the status of a delivered message
StatusNoContent == 204

\* the answers of the webhook; 0 stands for no request (debug mode)
HttpStatuses == {204, 500}

SendStatuses(dbg) == IF dbg THEN {0} ELSE HttpStatuses

\* send_discord without the check of the status
send_discord_unchecked(dbg, status) == "returned"

\* how send_discord ends
send_discord(dbg, status) ==
    IF dbg THEN "returned"
    ELSE IF status # StatusNoContent THEN "RuntimeError"
    ELSE "returned"

Message(src, kind, deadline, content, status) ==
    [source |-> src, kind |-> kind, deadline |-> deadline, content |-> content,
     status |-> status]

----------------------------------------------------------------------------
(* The inputs of a run of main *)

\* most entries a source returns
MaxFetch == 2

WebhookUrl == <<"w">>

AlertEnvValues ==
    { None, <<>>, <<"1">>, <<"-", "1", ",", " ", "1", ",", "1">>, <<",">>,
      <<"1", ",", "x">> }

\* a time of day is its minute; 23:59, the time of every store deadline
EndOfDay == 1439

NowValue == [date |-> 10, time |-> 540]

\* A store deadline is now plus a number of days >= 0, at 23:59; a ticket
\* deadline is the end of a reception period as the page gives it, of any
\* date and time of day.
FetchDeadlines(src) ==
    IF src = "store"
    THEN { [date |-> 10, time |-> EndOfDay], [date |-> 11, time |-> EndOfDay] }
    ELSE { [date |-> 9, time |-> 720], [date |-> 10, time |-> 720],
           [date |-> 10, time |-> EndOfDay], [date |-> 11, time |-> 720] }

FetchTitle(src, i) ==
    IF src = "store" THEN Str(<<"i", "t", "e", "m", Digit(i)>>)
    ELSE Str(<<"e", "v", "e", "n", "t", Digit(i)>>)

FetchUrl(src, i) ==
    IF src = "store" THEN Str(<<"/", "s", "/", Digit(i)>>)
    ELSE Str(<<"/", "t", "/", Digit(i)>>)

\* what get_asobistore_items / get_ticket_events may return
FetchLists(src) ==
    UNION { { [i \in 1..n |-> DeadlineEntry(FetchTitle(src, i), FetchUrl(src, i), d[i])] :
                d \in [1..n -> FetchDeadlines(src)] } : n \in 0..MaxFetch }

----------------------------------------------------------------------------
(* main (main.py:292-354) *)

FmtIdle ==
    /\ section = <<>>
    /\ entries = <<>>
    /\ omitted_message = <<>>
    /\ max_display = DefaultMaxDisplay
    /\ current_max = 0
    /\ merged = <<>>
    /\ omitted = FALSE
    /\ msg = <<>>
    /\ fpc = "idle"

Init ==
    /\ webhook_url \in {None, <<>>, WebhookUrl}
    /\ ALERT_DAYS \in AlertEnvValues
    /\ debug \in BOOLEAN
    /\ alert_days = <<>>
    /\ now = NowValue
    /\ fetched = <<>>
    /\ fetch_log = <<>>
    /\ store_items = <<>>
    /\ ticket_items = <<>>
    /\ by_deadline = <<>>
    /\ todo = <<>>
    /\ any_sent = FALSE
    /\ sent = <<>>
    /\ error = NoError
    /\ pc = "start"
    /\ FmtIdle

PcSend(src) == IF src = "store" THEN "store_send" ELSE "ticket_send"
PcExcept(src) == IF src = "store" THEN "store_except" ELSE "ticket_except"
PcAfter(src) == IF src = "store" THEN "ticket" ELSE "final"

Raise(kind) == [kind |-> kind, at |-> pc]

\* Start without the check of webhook_url
StartUnchecked ==
    /\ pc = "start"
    /\ alert_days' = load_alert_days(ALERT_DAYS)
    /\ pc' = "store"
    /\ UNCHANGED <<webhook_url, ALERT_DAYS, debug, now, fetched, fetch_log,
                   store_items, ticket_items, by_deadline, todo, any_sent, sent, error>>
    /\ UNCHANGED fmtvars

\* lines 299-306
Start ==
    /\ pc = "start"
    /\ IF webhook_url = None \/ webhook_url = <<>>
       THEN /\ pc' = "error"
            /\ error' = Raise("RuntimeError")
            /\ UNCHANGED alert_days
       ELSE /\ alert_days' = load_alert_days(ALERT_DAYS)
            /\ pc' = "store"
            /\ UNCHANGED error
    /\ UNCHANGED <<webhook_url, ALERT_DAYS, debug, now, fetched, fetch_log,
                   store_items, ticket_items, by_deadline, todo, any_sent, sent>>
    /\ UNCHANGED fmtvars

\* lines 327-328 / 340-341 and 311-315: the source returns its entries; they
\* are filtered and, when some remain, grouped by deadline date
FetchReturns(src) ==
    /\ pc = src
    /\ \E raw \in FetchLists(src) :
          LET items == filter_entries(raw, alert_days, now)
          IN  /\ fetched' = raw
              /\ fetch_log' = Append(fetch_log, [source |-> src, outcome |-> "returned"])
              /\ IF src = "store"
                 THEN store_items' = items /\ UNCHANGED ticket_items
                 ELSE ticket_items' = items /\ UNCHANGED store_items
              /\ IF items # <<>>
                 THEN /\ by_deadline' = ByDeadline(items)
                      /\ todo' = SortedKeys(by_deadline')
                      /\ pc' = PcSend(src)
                 ELSE /\ pc' = PcAfter(src)
                      /\ UNCHANGED <<by_deadline, todo>>
    /\ UNCHANGED <<webhook_url, ALERT_DAYS, debug, alert_days, now, any_sent, sent,
                   error>>
    /\ UNCHANGED fmtvars

\* the source raises NotImplementedError: control goes to the except clause
FetchNotImplemented(src) ==
    /\ pc = src
    /\ fetch_log' = Append(fetch_log, [source |-> src, outcome |-> "NotImplementedError"])
    /\ pc' = PcExcept(src)
    /\ UNCHANGED <<webhook_url, ALERT_DAYS, debug, alert_days, now, fetched,
                   store_items, ticket_items, by_deadline, todo, any_sent, sent, error>>
    /\ UNCHANGED fmtvars

\* the source raises anything else (requests.HTTPError of raise_for_status,
\* a connection or browser error): no except clause of main catches it
FetchFails(src) ==
    /\ pc = src
    /\ fetch_log' = Append(fetch_log, [source |-> src, outcome |-> "HTTPError"])
    /\ error' = Raise("HTTPError")
    /\ pc' = "error"
    /\ UNCHANGED <<webhook_url, ALERT_DAYS, debug, alert_days, now, fetched,
                   store_items, ticket_items, by_deadline, todo, any_sent, sent>>
    /\ UNCHANGED fmtvars

\* lines 315-322, one iteration, and line 334 / 347 after the last one
SendGroup(src) ==
    /\ pc = PcSend(src)
    /\ todo # <<>>
    /\ LET deadline == Head(todo)
           r == format_message(SectionOf(src), GroupOf(by_deadline, deadline),
                               OmittedOf(src), DefaultMaxDisplay)
       IN  IF r.raised
           THEN /\ error' = Raise("ValueError")
                /\ pc' = "error"
                /\ UNCHANGED <<todo, any_sent, sent>>
           ELSE \E status \in SendStatuses(debug) :
                  /\ sent' = Append(sent, Message(src, "group", deadline, r.msg, status))
                  /\ IF send_discord(debug, status) = "returned"
                     THEN /\ todo' = Tail(todo)
                          /\ IF Tail(todo) = <<>>
                             THEN any_sent' = TRUE /\ pc' = PcAfter(src)
                             ELSE UNCHANGED <<any_sent, pc>>
                          /\ UNCHANGED error
                     ELSE /\ error' = Raise("RuntimeError")
                          /\ pc' = "error"
                          /\ UNCHANGED <<todo, any_sent>>
    /\ UNCHANGED <<webhook_url, ALERT_DAYS, debug, alert_days, now, fetched, fetch_log,
                   store_items, ticket_items, by_deadline>>
    /\ UNCHANGED fmtvars

\* SendPlaceholder with an except clause that sends nothing
SendPlaceholderSilent(src) ==
    /\ pc = PcExcept(src)
    /\ any_sent' = TRUE
    /\ pc' = PcAfter(src)
    /\ UNCHANGED <<webhook_url, ALERT_DAYS, debug, alert_days, now, fetched, fetch_log,
                   store_items, ticket_items, by_deadline, todo, sent, error>>
    /\ UNCHANGED fmtvars

\* lines 335-337 / 348-350
SendPlaceholder(src) ==
    /\ pc = PcExcept(src)
    /\ \E status \in SendStatuses(debug) :
          /\ sent' = Append(sent, Message(src, "placeholder", 0, PlaceholderOf(src), status))
          /\ IF send_discord(debug, status) = "returned"
             THEN any_sent' = TRUE /\ pc' = PcAfter(src) /\ UNCHANGED error
             ELSE error' = Raise("RuntimeError") /\ pc' = "error" /\ UNCHANGED any_sent
    /\ UNCHANGED <<webhook_url, ALERT_DAYS, debug, alert_days, now, fetched, fetch_log,
                   store_items, ticket_items, by_deadline, todo>>
    /\ UNCHANGED fmtvars

\* Final without the test of any_sent
FinalUnconditional ==
    /\ pc = "final"
    /\ \E status \in SendStatuses(debug) :
          /\ sent' = Append(sent, Message("main", "none", 0, no_message(alert_days), status))
          /\ IF send_discord(debug, status) = "returned"
             THEN pc' = "done" /\ UNCHANGED error
             ELSE error' = Raise("RuntimeError") /\ pc' = "error"
    /\ UNCHANGED <<webhook_url, ALERT_DAYS, debug, alert_days, now, fetched, fetch_log,
                   store_items, ticket_items, by_deadline, todo, any_sent>>
    /\ UNCHANGED fmtvars

\* lines 352-354
Final ==
    /\ pc = "final"
    /\ IF ~any_sent
       THEN \E status \in SendStatuses(debug) :
              /\ sent' = Append(sent, Message("main", "none", 0, no_message(alert_days), status))
              /\ IF send_discord(debug, status) = "returned"
                 THEN pc' = "done" /\ UNCHANGED error
                 ELSE error' = Raise("RuntimeError") /\ pc' = "error"
       ELSE pc' = "done" /\ UNCHANGED <<sent, error>>
    /\ UNCHANGED <<webhook_url, ALERT_DAYS, debug, alert_days, now, fetched, fetch_log,
                   store_items, ticket_items, by_deadline, todo, any_sent>>
    /\ UNCHANGED fmtvars

Next ==
    \/ Start
    \/ \E src \in Sources :
          \/ FetchReturns(src)
          \/ FetchNotImplemented(src)
          \/ FetchFails(src)
          \/ SendGroup(src)
          \/ SendPlaceholder(src)
    \/ Final

Spec == Init /\ [][Next]_vars

----------------------------------------------------------------------------
(* Reading a message back *)

\* s.split("\n")
RECURSIVE SplitLines(_)
SplitLines(s) ==
    LET brk == {i \in 1..Len(s) : s[i][1] = "\n"}
    IN  IF brk = {} THEN <<s>>
        ELSE LET i == CHOOSE j \in brk : \A k \in brk : j <= k
                 after == SubSeq(s, i + 1, Len(s))
             IN  <<SubSeq(s, 1, i - 1)>>
                 \o SplitLines(IF s[i][2] > 1
                               THEN << <<"\n", s[i][2] - 1>> >> \o after
                               ELSE after)

\* the lines of a message that are entry rows, "- [...", in order
RowLines(m) ==
    SelectSeq(SplitLines(m), LAMBDA ln : Take(ln, 3) = Str(<<"-", " ", "[">>))

EndsWith(s, t) ==
    /\ StrLen(s) >= StrLen(t)
    /\ Drop(s, StrLen(s) - StrLen(t)) = t

\* header, date line and one link line per entry, written out character by
\* character; the header alone when there is no entry
RECURSIVE NaiveRows(_)
NaiveRows(es) ==
    IF es = <<>> THEN <<>>
    ELSE Cat(Cat(Cat(Cat(Cat(Str(<<"\n", "-", " ", "[">>), es[1].title),
                         Str(<<"]", "(">>)), es[1].url), Str(<<")">>)),
             NaiveRows(Tail(es)))

NaiveRender(sec, es) ==
    LET head == Cat(Cat(Str(<<"*", "*">>), sec), Str(<<"*", "*">>))
    IN  IF es = <<>> THEN head
        ELSE Cat(Cat(Cat(head, Str(<<"\n", "shime", "kiri", ":", " ">>)),
                     strftime(es[1].deadline)),
                 NaiveRows(es))

FmtEnded == fpc \in {"returned", "fallback", "raised"}

----------------------------------------------------------------------------
(* Claims about format_message, under SpecFmt *)

\* C1 as stated: whatever the section, a returned message is at most 2000
\* characters long unless omitted_message is itself longer than 2000.
C1_BudgetForAnySection ==
    (FmtDone /\ StrLen(omitted_message) <= Budget) => StrLen(msg) <= Budget

\* C1, amended: a returned message is at most 2000 characters long whenever
\* the last-resort text fits, that is whenever
\* len(section) + len(omitted_message) + 16 <= 2000.
C1_BudgetWhenLastResortFits ==
    (FmtDone /\ StrLen(section) + StrLen(omitted_message) + 16 <= Budget)
        => StrLen(msg) <= Budget

\* C1 witness: a call whose rows never fit (three rows are still too long)
\* has returned the last-resort text, within the budget.
C1_Witness ==
    /\ fpc = "fallback"
    /\ Len(entries) >= 4
    /\ StrLen(section) + StrLen(omitted_message) + 16 <= Budget
    /\ StrLen(msg) <= Budget

\* C2: with at most max_display entries whose naive render fits the budget,
\* the call returns exactly the naive render: every entry's own line, in input
\* order, and no omission marker.
C2_NoOpCompaction ==
    (FmtEnded /\ Len(entries) <= max_display
              /\ StrLen(NaiveRender(section, entries)) <= Budget)
        => /\ FmtDone
           /\ msg = NaiveRender(section, entries)
           /\ Len(RowLines(msg)) = Len(entries)

\* C2 witness: three entries, two of them sharing a title prefix, returned
\* unmerged.
C2_Witness ==
    /\ fpc = "returned"
    /\ Len(entries) = 3
    /\ Len(entries) <= max_display
    /\ Take(entries[1].title, 1) = Take(entries[2].title, 1)
    /\ entries[1].title # entries[2].title
    /\ msg = NaiveRender(section, entries)

C4_EmptyGivesHeader ==
    (FmtEnded /\ entries = <<>>)
        => /\ FmtDone
           /\ msg = Cat(Cat(Str(<<"*", "*">>), section), Str(<<"*", "*">>))

\* C5: every call returns a string; none ends in an error.
C5_NeverRaises == fpc # "raised"

----------------------------------------------------------------------------
(* Reading a run of main back *)

ItemsOf(src) == IF src = "store" THEN store_items ELSE ticket_items

\* the source of the last fetch returned its entries
LastReturned(src) ==
    /\ fetch_log # <<>>
    /\ fetch_log[Len(fetch_log)] = [source |-> src, outcome |-> "returned"]

Outcome(src, outcome) ==
    \E i \in 1..Len(fetch_log) : fetch_log[i] = [source |-> src, outcome |-> outcome]

\* the messages of one kind handed to send_discord for a source, in order
SentOf(src, kind) ==
    LET Is(m) == m.source = src /\ m.kind = kind
    IN  SelectSeq(sent, Is)

GroupDeadlines(src) ==
    [i \in 1..Len(SentOf(src, "group")) |-> SentOf(src, "group")[i].deadline]

DateOf(e) == e.deadline.date

DatesOf(es) == {DateOf(es[i]) : i \in 1..Len(es)}

\* the k-th smallest member of a set of integers
Kth(S, k) == CHOOSE x \in S : Cardinality({y \in S : y <= x}) = k

----------------------------------------------------------------------------
(* C6 *)

\* the positions of fetched whose day offset is one of alert_days
Wanted ==
    {i \in 1..Len(fetched) :
        \E k \in 1..Len(alert_days) : fetched[i].deadline.date - now.date = alert_days[k]}

\* C6: filter_entries returns exactly the subsequence of its input whose day
\* offset (deadline date minus now's date) is in alert_days: as many entries
\* as there are such positions, the k-th output being the entry at the k-th
\* such position, unaltered.
C6_FilterIsSubsequence ==
    \A src \in Sources :
        LastReturned(src) =>
            /\ Len(ItemsOf(src)) = Cardinality(Wanted)
            /\ \A k \in 1..Len(ItemsOf(src)) : ItemsOf(src)[k] = fetched[Kth(Wanted, k)]

\* a fetch of two entries of which filter_entries keeps the one that is one
\* day ahead and drops the one of yesterday
C6_Witness ==
    \E src \in Sources :
        /\ LastReturned(src)
        /\ Len(fetched) = 2
        /\ Len(ItemsOf(src)) = 1
        /\ \E i \in 1..2 : fetched[i].deadline.date < now.date

----------------------------------------------------------------------------
(* C7 *)

Grouping(src) == pc = PcSend(src)

\* C7: the groups of by_deadline partition the filtered entries by calendar
\* date: the keys are distinct, every entry's date is a key, and the group of
\* a key is the filtered list restricted to the entries of that date, in the
\* filtered order (so nothing is lost, duplicated or placed twice), whatever
\* the time of day.
C7_GroupsPartition ==
    \A src \in Sources :
        Grouping(src) =>
            /\ \A i, j \in 1..Len(by_deadline) :
                  by_deadline[i].key = by_deadline[j].key => i = j
            /\ \A k \in 1..Len(ItemsOf(src)) :
                  \E i \in 1..Len(by_deadline) : by_deadline[i].key = DateOf(ItemsOf(src)[k])
            /\ \A i \in 1..Len(by_deadline) :
                  LET OfDate(e) == DateOf(e) = by_deadline[i].key
                  IN  by_deadline[i].group = SelectSeq(ItemsOf(src), OfDate)

\* two entries of one date and different times of day share a group
C7_Witness ==
    \E src \in Sources :
        /\ Grouping(src)
        /\ \E i \in 1..Len(by_deadline) :
              /\ Len(by_deadline[i].group) = 2
              /\ by_deadline[i].group[1].deadline.time # by_deadline[i].group[2].deadline.time

----------------------------------------------------------------------------
(* C8 *)

\* C8: the group messages of a source are handed to send_discord in strictly
\* ascending order of deadline date, each for a date of the source's filtered
\* entries; and when the run completes, every such date has its message
\* (exactly one, the order being strict).
C8_AscendingOnePerDate ==
    \A src \in Sources :
        LET d == GroupDeadlines(src)
        IN  /\ \A i, j \in 1..Len(d) : i < j => d[i] < d[j]
            /\ \A i \in 1..Len(d) : d[i] \in DatesOf(ItemsOf(src))
            /\ pc = "done" => {d[i] : i \in 1..Len(d)} = DatesOf(ItemsOf(src))

\* a completed run in which a source returned the later date first and both
\* dates got their message
C8_Witness ==
    /\ pc = "done"
    /\ \E src \in Sources :
          /\ Len(ItemsOf(src)) = 2
          /\ DateOf(ItemsOf(src)[1]) > DateOf(ItemsOf(src)[2])
          /\ Len(GroupDeadlines(src)) = 2

----------------------------------------------------------------------------
(* C9 *)

MissingWebhook == webhook_url = None \/ webhook_url = <<>>

\* ALERT_DAYS is set and one of its comma separated values is not an integer
MalformedAlertDays ==
    /\ ALERT_DAYS # None
    /\ \E i \in 1..Len(SplitComma(ALERT_DAYS)) :
          LET v == strip(SplitComma(ALERT_DAYS)[i])
          IN  v # <<>> /\ ~IsIntLiteral(v)

NoEntryProcessing ==
    /\ fetch_log = <<>>
    /\ store_items = <<>>
    /\ ticket_items = <<>>
    /\ sent = <<>>

\* C9 as claimed: in a run with a missing webhook destination or a malformed
\* alert-offsets value no entry is fetched, filtered or sent, and the run
\* does not complete.
C9_ConfigErrorStopsRun ==
    (MissingWebhook \/ MalformedAlertDays) => (NoEntryProcessing /\ pc # "done")

\* C9 amended: a missing webhook destination ends the run with RuntimeError
\* before anything is fetched, filtered or sent; a malformed alert-offsets
\* value is no error: the run goes on with the offsets [0, 1, 7].
C9_MissingWebhookStopsRun ==
    /\ MissingWebhook =>
          /\ NoEntryProcessing
          /\ pc \in {"start", "error"}
          /\ pc = "error" => error = [kind |-> "RuntimeError", at |-> "start"]
    /\ (~MissingWebhook /\ MalformedAlertDays /\ pc # "start") =>
          /\ alert_days = DefaultAlertDays
          /\ error.at # "start"

\* the run has ended at its start for want of a webhook destination
C9_Witness == MissingWebhook /\ pc = "error" /\ error.at = "start"

----------------------------------------------------------------------------
(* C10 *)

RunEnded == pc \in {"done", "error"}

OnePlaceholderNoGroup(src) ==
    /\ Len(SentOf(src, "placeholder")) = 1
    /\ SentOf(src, "placeholder")[1].content = PlaceholderOf(src)
    /\ SentOf(src, "group") = <<>>

\* C10 as claimed: a run in which a source could not be acquired, for
\* whatever reason, hands exactly one placeholder and no compacted message
\* of that source to send_discord.
C10_PlaceholderWhenUnavailable ==
    \A src \in Sources :
        (RunEnded /\ (Outcome(src, "NotImplementedError") \/ Outcome(src, "HTTPError")))
            => OnePlaceholderNoGroup(src)

\* C10 amended: a source that raises NotImplementedError gets exactly one
\* placeholder and no compacted message; a source that fails in any other
\* way ends the run with that error, and neither a placeholder nor a
\* compacted message of it is handed to send_discord; and no source ever gets
\* a placeholder together with a compacted message.
C10_PlaceholderWhenNotImplemented ==
    \A src \in Sources :
        /\ (Outcome(src, "NotImplementedError") /\ pc # PcExcept(src))
              => OnePlaceholderNoGroup(src)
        /\ Outcome(src, "HTTPError") =>
              /\ pc = "error"
              /\ error = [kind |-> "HTTPError", at |-> src]
              /\ SentOf(src, "placeholder") = <<>>
              /\ SentOf(src, "group") = <<>>
        /\ SentOf(src, "placeholder") # <<>> =>
              /\ Outcome(src, "NotImplementedError")
              /\ SentOf(src, "group") = <<>>

\* a completed run in which a source was not implemented and got its
\* placeholder
C10_Witness ==
    /\ pc = "done"
    /\ \E src \in Sources :
          Outcome(src, "NotImplementedError") /\ OnePlaceholderNoGroup(src)

----------------------------------------------------------------------------
(* C11 *)

\* the webhook answered the i-th send with something other than 204
Refused(i) == ~debug /\ sent[i].status # StatusNoContent

\* C11: a send the webhook answers with anything but 204 is the last one of
\* the run: the run has ended with the RuntimeError of send_discord, raised
\* where that message was sent, and no message follows the refused one.
C11_RefusedSendEndsRun ==
    \A i \in 1..Len(sent) :
        Refused(i) =>
            /\ i = Len(sent)
            /\ pc = "error"
            /\ error.kind = "RuntimeError"
            /\ error.at \in {"store_send", "store_except", "ticket_send",
                             "ticket_except", "final"}

\* a run whose first message was delivered and whose second was refused
C11_Witness ==
    /\ Len(sent) = 2
    /\ ~Refused(1)
    /\ Refused(2)
    /\ pc = "error"

----------------------------------------------------------------------------
(* C12 *)

\* the positions of the input entries that share the key of the i-th at
\* prefix length l
InputGroup(i, l) ==
    {j \in 1..Len(entries) : PrefixKey(entries[j], l) = PrefixKey(entries[i], l)}

\* row r stands for the input entry i: it is that entry unchanged, or the
\* merged row of a group of two or more input entries of which i is the
\* earliest: the group's key followed by "...", with the url and deadline of i
IsRowOf(r, i) ==
    \/ r = entries[i]
    \/ \E l \in 1..MaxTitleLen(entries) :
          /\ Cardinality(InputGroup(i, l)) >= 2
          /\ \A j \in InputGroup(i, l) : i <= j
          /\ r = DeadlineEntry(Cat(PrefixKey(entries[i], l), Str(<<".", ".", ".">>)),
                               entries[i].url, entries[i].deadline)

----------------------------------------------------------------------------
(* C13 *)

\* the no-items notices handed to send_discord
Notices == SentOf("main", "none")

\* a compacted message or a placeholder of some source was handed over
SourceMessageSent ==
    \E src \in Sources : SentOf(src, "group") # <<>> \/ SentOf(src, "placeholder") # <<>>

\* C13: the no-items notice is sent at most once and never in a run that
\* sent a compacted message or a placeholder; a run with a webhook
\* destination that completes without error has sent at least one message,
\* and has sent the notice, with the sorted offsets in its text, exactly
\* when no source got a compacted message or a placeholder.
C13_NoticeIffNothingElse ==
    /\ Len(Notices) <= 1
    /\ Notices # <<>> => ~SourceMessageSent
    /\ pc = "done" =>
          /\ ~MissingWebhook
          /\ sent # <<>>
          /\ Notices # <<>> <=> ~SourceMessageSent
          /\ \A i \in 1..Len(Notices) : Notices[i].content = no_message(alert_days)

\* a completed run in which both sources returned entries, none within the
\* alert offsets, and the notice was the only message
C13_Witness ==
    /\ pc = "done"
    /\ Len(sent) = 1
    /\ Len(Notices) = 1
    /\ fetched # <<>>
    /\ Len(fetch_log) = 2

============================================================================
